---- MODULE Spec2Model ----
(***************************************************************************)
(* Run-scoped coordination substrate of PedagogyAI:                        *)
(*   - CitationManager   (src/agents/solve/solve_loop/citation_manager.py) *)
(*   - ProgressBroadcaster (src/api/utils/progress_broadcaster.py)         *)
(*   - PerformanceMonitor (src/agents/solve/utils/performance_monitor.py)  *)
(* Python objects are modelled with explicit addresses, so that aliasing   *)
(* between a value handed to a caller and the manager's own state is       *)
(* visible.  Coroutines are modelled at the granularity of the event loop: *)
(* one action is the code run between two suspension points.               *)
(***************************************************************************)
EXTENDS Integers, Sequences, FiniteSets, TLC

VARIABLES
    \* ---- CitationManager ----
    citation_counter,   \* self.citation_counter
    citation_map,       \* self.citation_map: address of the dict object
    dicts,              \* heap of dict objects: address -> [key -> record address]
    records,            \* heap of citation_info dicts: address -> record
    snap,               \* the dict get_all_citations last returned: {address}, {} before
    returned,           \* history: allocate calls since the last reset, in arrival order
    retired,            \* history: ids allocated before the last reset
    ret,                \* history: the last call and the value it returned
    allocs,             \* history: number of allocate calls so far
    writes,             \* history: number of writes callers made to a returned dict
    handed,             \* history: per run, {} before its reset, else {the ids its own
                        \* allocate calls returned since then, in order}
    \* ---- ProgressBroadcaster ----
    connections,        \* _connections: kb_name -> set of websockets
    lockHolder,         \* _lock: the task that holds it, or None
    lockWaiters,        \* _lock: FIFO of the tasks waiting in acquire()
    pc,                 \* per task: position in its coroutine
    call,               \* per task: the call it is running (op, kb_name, websocket, progress)
    pending,            \* per task: websockets the for-loop of broadcast has not reached
    cur,                \* per task: websocket whose send_json is awaited
    to_remove,          \* per task: local list to_remove of broadcast
    startSet,           \* history: _connections[kb_name] when the broadcast took the lock
    attempts,           \* history: websockets on which send_json was called, in order
    sinkState,          \* per websocket: "open", "closed" or "stuck"
    received,           \* per websocket: the messages its send_json delivered
    issued,             \* history: number of broadcast calls so far
    lastDone,           \* history: the broadcast that returned in the last step, if any
    counted,            \* history: the get_connection_count call of the last step, if any
    \* ---- PerformanceMonitor ----
    global_monitor,     \* _global_monitor: {} for None, else {n}, the n-th instance made
    enabled,            \* self.enabled
    save_dir,           \* self.save_dir
    save_dir_exists,    \* file system: the directory self.save_dir exists
    files,              \* file system: timestamps of the files save() wrote
    metrics,            \* self.metrics: agent_name -> address of a PerformanceMetrics
    spans,              \* heap of PerformanceMetrics objects, by address 1, 2, ...
    total_duration,     \* self.total_duration
    total_tokens,       \* self.total_tokens
    total_api_calls,    \* self.total_api_calls
    total_errors,       \* self.total_errors
    now,                \* what time.time() returns
    scopePc,            \* per scope frame: "out", or "body" inside `with track(...)`
    scopeName,          \* per scope frame: local agent_name of track
    scopeSpan,          \* per scope frame: local metrics of track, {address}
    closedLog,          \* history: the mark_end calls since the last reset
    updates,            \* history: number of updates callers made to a handle
    trackRet,           \* history: the call that returned in the last step, if any
    \* ---- JSON recovery and validation helpers ----
    text,               \* argument text / response: the characters of the input
    fallback,           \* argument fallback of parse_json_response
    repair_json,        \* module global repair_json, and what the library does with the text
    recovered,          \* history: the recovery call that returned in the last step, if any
    data,               \* argument data of ensure_keys: the dict object
    keys,               \* argument keys of ensure_keys
    checked             \* history: the ensure_keys call that ended in the last step, if any

citeVars == <<citation_counter, citation_map, dicts, records, snap,
              returned, retired, ret, allocs, writes, handed>>
hubVars  == <<connections, lockHolder, lockWaiters, pc, call, pending, cur,
              to_remove, startSet, attempts, sinkState, received, issued,
              lastDone, counted>>
trackVars == <<global_monitor, enabled, save_dir, save_dir_exists, files, metrics, spans, total_duration,
               total_tokens, total_api_calls, total_errors, now, scopePc,
               scopeName, scopeSpan, closedLog, updates, trackRet>>
jsonVars == <<text, fallback, repair_json, recovered, data, keys, checked>>
vars     == <<citeVars, hubVars, trackVars, jsonVars>>

None == "None"

(***************************************************************************)
(* Bounds of the model                                                     *)
(***************************************************************************)
MaxAllocs == 3          \* allocate_citation_id calls in one behaviour
MaxBroadcasts == 2      \* broadcast calls in one behaviour
MaxCallerWrites == 2    \* writes of a caller to a returned dict in one behaviour
MaxSpans == 2           \* PerformanceMetrics objects created in one behaviour
MaxCloses == 2          \* mark_end calls between two resets after which end is not called directly
MaxUpdates == 1         \* updates of callers to a PerformanceMetrics in one behaviour
MaxTime == 2            \* largest reading of the clock
MaxSaves == 1           \* files save() writes in one behaviour
MaxMetricCalls == 3     \* updates to PerformanceMetrics objects when only they are exercised
MaxKeys == 3            \* length of the keys argument of ensure_keys
MaxTextLen == 2         \* length up to which every text over Chars is an input
RecursionLimit == 3     \* containers the JSON scanner may nest before RecursionError

CiteTasks    == {"run1", "run2"}

(***************************************************************************)
(* CitationManager                                                         *)
(***************************************************************************)
DigitChar == <<"0", "1", "2", "3", "4", "5", "6", "7", "8", "9">>

RECURSIVE Str(_)
\* str(n) of a non-negative int, as the f-string formats it
Str(n) == IF n < 10 THEN DigitChar[n + 1]
          ELSE Str(n \div 10) \o DigitChar[(n % 10) + 1]

\* f"[{self.citation_counter}]"
FormatId(n) == "[" \o Str(n) \o "]"

\* the argument tuples a caller may pass to allocate_citation_id
ArgTuples ==
    {[knowledge_id |-> "k1", reference_id |-> None, source |-> None, content |-> None],
     [knowledge_id |-> "k2", reference_id |-> "[1]", source |-> "web", content |-> "text"]}

\* the citation ids a caller may ask about
IdUniverse == {FormatId(n) : n \in 0 .. MaxAllocs + 1}

\* the objects reachable from the manager or from a caller are kept, the rest
\* is garbage
LiveDicts(cm, sn) == {cm} \cup sn
LiveRecords(ds, live) == UNION {{ds[d][k] : k \in DOMAIN ds[d]} : d \in live}
Restrict(f, S) == [x \in S |-> f[x]]
FreshAddr(used) == CHOOSE a \in 0 .. Cardinality(used) : a \notin used

EmptyDict == [k \in {} |-> 0]

CitationInit ==
    /\ citation_counter = 0
    /\ citation_map = 0
    /\ dicts = [d \in {0} |-> EmptyDict]
    /\ records = [a \in {} |-> 0]
    /\ snap = {}
    /\ returned = <<>>
    /\ retired = {}
    /\ ret = [op |-> "init", arg |-> None, val |-> None, ref |-> {}]
    /\ allocs = 0
    /\ writes = 0
    /\ handed = [t \in CiteTasks |-> {}]

NextCounterSame(c) == c

\* self.citation_counter += 1
NextCounter(c) == c + 1

\* self.citation_map[citation_id] = {...}
StoreRecord(d, citation_id, addr) ==
    [k \in DOMAIN d \cup {citation_id} |-> IF k = citation_id THEN addr ELSE d[k]]

MakeRecordUnkeyed(args, citation_id) ==
    [knowledge_id |-> args.knowledge_id, reference_id |-> args.reference_id,
     source |-> args.source, content |-> args.content,
     citation_id |-> None]

\* the citation_info dict literal
MakeRecord(args, citation_id) ==
    [knowledge_id |-> args.knowledge_id, reference_id |-> args.reference_id,
     source |-> args.source, content |-> args.content,
     citation_id |-> citation_id]

allocate_citation_id(t, args) ==
    /\ allocs < MaxAllocs
    /\ LET c    == NextCounter(citation_counter)
           id   == FormatId(c)
           addr == FreshAddr(DOMAIN records)
           d2   == StoreRecord(dicts[citation_map], id, addr)
           ds2  == [dicts EXCEPT ![citation_map] = d2]
           rs2  == [a \in DOMAIN records \cup {addr} |->
                       IF a = addr THEN MakeRecord(args, id) ELSE records[a]]
       IN  /\ citation_counter' = c
           /\ dicts' = ds2
           /\ records' = Restrict(rs2, LiveRecords(ds2, DOMAIN ds2))
           /\ returned' = Append(returned, [task |-> t, id |-> id, args |-> args])
           /\ ret' = [op |-> "allocate", arg |-> None, val |-> id, ref |-> {}]
    /\ allocs' = allocs + 1
    /\ UNCHANGED <<citation_map, snap, retired>>

DictGetAny(d, citation_id) ==
    IF DOMAIN d # {} THEN {d[CHOOSE k \in DOMAIN d : TRUE]} ELSE {}

\* self.citation_map.get(citation_id): the stored object itself ({address}),
\* or None ({})
DictGet(d, citation_id) ==
    IF citation_id \in DOMAIN d THEN {d[citation_id]} ELSE {}

get_citation_info(t, citation_id) ==
    /\ ret' = [op |-> "lookup", arg |-> citation_id,
               val |-> None, ref |-> DictGet(dicts[citation_map], citation_id)]
    /\ UNCHANGED <<citation_counter, citation_map, dicts, records, snap,
                   returned, retired, allocs>>

\* self.citation_map.copy(): a new dict object holding the same record objects
DictCopy(cm, ds) == FreshAddr(DOMAIN ds)

get_all_citations(t) ==
    LET new  == DictCopy(citation_map, dicts)
        ds2  == [a \in DOMAIN dicts \cup {new} |-> dicts[IF a = new THEN citation_map ELSE a]]
        sn2  == {new}
        live == LiveDicts(citation_map, sn2)
        ds3  == Restrict(ds2, live)
    IN  /\ snap' = sn2
        /\ dicts' = ds3
        /\ records' = Restrict(records, LiveRecords(ds3, live))
        /\ ret' = [op |-> "all", arg |-> None, val |-> None, ref |-> {new}]
        /\ UNCHANGED <<citation_counter, citation_map, returned, retired, allocs>>

ResetCounterKeep(c) == c

\* self.citation_counter = 0
ResetCounter(c) == 0

reset(t) ==
    LET new  == FreshAddr(DOMAIN dicts)
        ds2  == [a \in DOMAIN dicts \cup {new} |-> IF a = new THEN EmptyDict ELSE dicts[a]]
        live == LiveDicts(new, snap)
        ds3  == Restrict(ds2, live)
    IN  /\ citation_counter' = ResetCounter(citation_counter)
        /\ citation_map' = new
        /\ dicts' = ds3
        /\ records' = Restrict(records, LiveRecords(ds3, live))
        /\ retired' = retired \cup {returned[i].id : i \in 1 .. Len(returned)}
        /\ returned' = <<>>
        /\ ret' = [op |-> "reset", arg |-> None, val |-> None, ref |-> {}]
        /\ UNCHANGED <<snap, allocs>>

(***************************************************************************)
(* What a caller can do with the dict get_all_citations gave it            *)
(***************************************************************************)
CallerKeys == {FormatId(1), FormatId(2), "extra"}
CallerFields == {"knowledge_id"}
CallerValues == {"edited"}

\* returned_dict[k] = some record the caller holds
CallerAddEntry(k) ==
    /\ \E sd \in snap :
        /\ k \notin DOMAIN dicts[sd]
        /\ DOMAIN dicts[sd] # {}
        /\ LET a == dicts[sd][CHOOSE x \in DOMAIN dicts[sd] : TRUE]
           IN  dicts' = [dicts EXCEPT ![sd] = StoreRecord(@, k, a)]
    /\ ret' = [op |-> "caller_add", arg |-> k, val |-> None, ref |-> {}]
    /\ UNCHANGED <<citation_counter, citation_map, records, snap, returned,
                   retired, allocs>>

\* del returned_dict[k]
CallerDelEntry(k) ==
    /\ \E sd \in snap :
        /\ k \in DOMAIN dicts[sd]
        /\ LET ds2  == [dicts EXCEPT ![sd] = Restrict(@, DOMAIN @ \ {k})]
           IN  /\ dicts' = ds2
               /\ records' = Restrict(records, LiveRecords(ds2, DOMAIN ds2))
    /\ ret' = [op |-> "caller_del", arg |-> k, val |-> None, ref |-> {}]
    /\ UNCHANGED <<citation_counter, citation_map, snap, returned, retired, allocs>>

\* returned_dict[k][field] = v
CallerSetField(k, field, v) ==
    /\ \E sd \in snap :
        /\ k \in DOMAIN dicts[sd]
        /\ records[dicts[sd][k]][field] # v
        /\ records' = [records EXCEPT ![dicts[sd][k]][field] = v]
    /\ ret' = [op |-> "caller_set", arg |-> k, val |-> None, ref |-> {}]
    /\ UNCHANGED <<citation_counter, citation_map, dicts, snap, returned,
                   retired, allocs>>

CallerWrite ==
    /\ writes < MaxCallerWrites
    /\ writes' = writes + 1

(***************************************************************************)
(* ProgressBroadcaster                                                     *)
(***************************************************************************)
HubTasks == {"a", "b"}
Channels == {"kb1", "kb2"}
Sinks    == {"ws1", "ws2"}
\* the (kb_name, websocket) pairs that connect and disconnect are called with
Subscriptions == {<<"kb1", "ws1">>, <<"kb1", "ws2">>, <<"kb2", "ws1">>}
\* the websockets whose peer may go away, and those whose peer may stop reading
Closable  == {"ws1", "ws2"}
Stallable == {"ws2"}

NoCall == [op |-> None, kb |-> None, ws |-> None, data |-> 0]
NoDone == [kb |-> None, data |-> 0, start |-> {}, attempts |-> <<>>,
           failed |-> <<>>, after |-> {}, entry |-> FALSE, outcome |-> None]
NoCount == [kb |-> None, n |-> 0]

Range(q) == {q[i] : i \in 1 .. Len(q)}

HubInit ==
    /\ connections = [c \in {} |-> {}]
    /\ lockHolder = None
    /\ lockWaiters = <<>>
    /\ pc = [t \in HubTasks |-> "idle"]
    /\ call = [t \in HubTasks |-> NoCall]
    /\ pending = [t \in HubTasks |-> {}]
    /\ cur = [t \in HubTasks |-> None]
    /\ to_remove = [t \in HubTasks |-> <<>>]
    /\ startSet = [t \in HubTasks |-> {}]
    /\ attempts = [t \in HubTasks |-> <<>>]
    /\ sinkState = [s \in Sinks |-> "open"]
    /\ received = [s \in Sinks |-> <<>>]
    /\ issued = 0
    /\ lastDone = NoDone
    /\ counted = NoCount

LockFreeAlways(holder, waiters) == TRUE

\* asyncio.Lock.acquire takes the lock at once when it is not locked and
\* nobody waits; otherwise the caller queues (FIFO) and is suspended
LockFree(holder, waiters) == holder = None /\ waiters = <<>>

\* asyncio.Lock.release as seen by the tasks: the first waiter is woken and
\* is the next to hold the lock; later arrivals queue behind the waiters
ReleaseTo(waiters) == IF waiters = <<>> THEN None ELSE Head(waiters)
ReleaseRest(waiters) == IF waiters = <<>> THEN <<>> ELSE Tail(waiters)

KeepEmptyEntry(conns, kb_name) == conns

\* if not self._connections[kb_name]: del self._connections[kb_name]
DropIfEmpty(conns, kb_name) ==
    IF conns[kb_name] = {}
    THEN [k \in DOMAIN conns \ {kb_name} |-> conns[k]]
    ELSE conns

\* body of connect
ConnectBody(conns, kb_name, websocket) ==
    [k \in DOMAIN conns \cup {kb_name} |->
        IF k = kb_name
        THEN (IF kb_name \in DOMAIN conns THEN conns[kb_name] ELSE {}) \cup {websocket}
        ELSE conns[k]]

\* body of disconnect
DisconnectBody(conns, kb_name, websocket) ==
    IF kb_name \in DOMAIN conns
    THEN DropIfEmpty([conns EXCEPT ![kb_name] = @ \ {websocket}], kb_name)
    ELSE conns

PruneNothing(set, removed) == set

\* for ws in to_remove: self._connections[kb_name].discard(ws)
Prune(set, removed) == set \ Range(removed)

\* end of broadcast: drop the failed websockets, drop the entry if empty
BroadcastEnd(conns, kb_name, removed) ==
    DropIfEmpty([conns EXCEPT ![kb_name] = Prune(@, removed)], kb_name)

\* len(self._connections.get(kb_name, set()))
get_connection_count(conns, kb_name) ==
    IF kb_name \in DOMAIN conns THEN Cardinality(conns[kb_name]) ELSE 0

\* the task leaves `async with self._lock` and its call returns
Return(t, waiters) ==
    /\ lockHolder' = ReleaseTo(waiters)
    /\ lockWaiters' = ReleaseRest(waiters)
    /\ pc' = [pc EXCEPT ![t] = "idle"]
    /\ call' = [call EXCEPT ![t] = NoCall]
    /\ pending' = [pending EXCEPT ![t] = {}]
    /\ cur' = [cur EXCEPT ![t] = None]
    /\ to_remove' = [to_remove EXCEPT ![t] = <<>>]
    /\ startSet' = [startSet EXCEPT ![t] = {}]
    /\ attempts' = [attempts EXCEPT ![t] = <<>>]

\* the for-loop of broadcast reaches websocket ws and awaits its send_json
AwaitSend(t, c, ws, rest, removed, start, tried) ==
    /\ pc' = [pc EXCEPT ![t] = "send"]
    /\ call' = [call EXCEPT ![t] = c]
    /\ cur' = [cur EXCEPT ![t] = ws]
    /\ pending' = [pending EXCEPT ![t] = rest]
    /\ to_remove' = [to_remove EXCEPT ![t] = removed]
    /\ startSet' = [startSet EXCEPT ![t] = start]
    /\ attempts' = [attempts EXCEPT ![t] = Append(tried, ws)]

\* what a finished broadcast call leaves behind, as its caller sees it
Done(c, start, tried, removed, conns, how) ==
    [kb |-> c.kb, data |-> c.data, start |-> start, attempts |-> tried,
     failed |-> removed,
     after |-> IF c.kb \in DOMAIN conns THEN conns[c.kb] ELSE {},
     entry |-> c.kb \in DOMAIN conns, outcome |-> how]

\* the for-loop of broadcast is over
FinishBroadcast(t, c, removed, start, tried, waiters) ==
    /\ connections' = BroadcastEnd(connections, c.kb, removed)
    /\ lastDone' = Done(c, start, tried, removed, connections', "returned")
    /\ Return(t, waiters)

\* an exception leaves broadcast: `async with` releases the lock on the way
\* out and the exception reaches the caller; the map is left as it is
Propagate(t, c, removed, start, tried, waiters) ==
    /\ lastDone' = Done(c, start, tried, removed, connections, "raised")
    /\ Return(t, waiters)
    /\ UNCHANGED connections

\* what send_json raises when the peer is gone
DeliveryErrors == {"WebSocketDisconnect", "RuntimeError"}

CaughtNone(e) == FALSE

\* except Exception: catches every class derived from Exception
Caught(e) == e # "CancelledError"

AfterCountInserts(conns, kb_name) ==
    [k \in DOMAIN conns \cup {kb_name} |->
        IF k \in DOMAIN conns THEN conns[k] ELSE {}]

\* self._connections.get(kb_name, set()) reads the map and inserts nothing
AfterCount(conns, kb_name) == conns

\* the websockets of a channel, none when the map has no entry for it
SubscribersOf(conns, kb_name) ==
    IF kb_name \in DOMAIN conns THEN conns[kb_name] ELSE {}

\* the code of call c run by task t from the point where it holds the lock
\* up to its next suspension point; waiters are the tasks queued on the lock
RunBody(t, c, waiters) ==
    \/ /\ c.op = "connect"
       /\ connections' = ConnectBody(connections, c.kb, c.ws)
       /\ Return(t, waiters)
       /\ lastDone' = NoDone
    \/ /\ c.op = "disconnect"
       /\ connections' = DisconnectBody(connections, c.kb, c.ws)
       /\ Return(t, waiters)
       /\ lastDone' = NoDone
    \/ /\ c.op = "broadcast"
       /\ c.kb \notin DOMAIN connections
       /\ Return(t, waiters)
       /\ lastDone' = Done(c, {}, <<>>, <<>>, connections, "returned")
       /\ UNCHANGED connections
    \/ /\ c.op = "broadcast"
       /\ c.kb \in DOMAIN connections
       /\ \E ws \in connections[c.kb] :
              AwaitSend(t, c, ws, connections[c.kb] \ {ws}, <<>>, connections[c.kb], <<>>)
       /\ lockHolder' = t
       /\ lockWaiters' = waiters
       /\ lastDone' = NoDone
       /\ UNCHANGED connections

\* task t calls connect, disconnect or broadcast
Enter(t, c) ==
    /\ pc[t] = "idle"
    /\ IF LockFree(lockHolder, lockWaiters)
       THEN RunBody(t, c, lockWaiters)
       ELSE /\ lockWaiters' = Append(lockWaiters, t)
            /\ pc' = [pc EXCEPT ![t] = "wait"]
            /\ call' = [call EXCEPT ![t] = c]
            /\ lastDone' = NoDone
            /\ UNCHANGED <<connections, lockHolder, pending, cur, to_remove,
                           startSet, attempts>>
    /\ counted' = NoCount
    /\ UNCHANGED <<sinkState, received>>

connect(t, kb_name, websocket) ==
    /\ Enter(t, [op |-> "connect", kb |-> kb_name, ws |-> websocket, data |-> 0])
    /\ UNCHANGED issued

disconnect(t, kb_name, websocket) ==
    /\ Enter(t, [op |-> "disconnect", kb |-> kb_name, ws |-> websocket, data |-> 0])
    /\ UNCHANGED issued

broadcast(t, kb_name) ==
    /\ issued < MaxBroadcasts
    /\ issued' = issued + 1
    /\ Enter(t, [op |-> "broadcast", kb |-> kb_name, ws |-> None, data |-> issued + 1])

\* a task that waited for the lock is woken holding it
Resume(t) ==
    /\ pc[t] = "wait"
    /\ lockHolder = t
    /\ RunBody(t, call[t], lockWaiters)
    /\ counted' = NoCount
    /\ UNCHANGED <<sinkState, received, issued>>

\* the for-loop of broadcast after the send_json on cur[t] is over
\* the set iterator raises RuntimeError when the set it walks changed size
NextSend(t, removed) ==
    IF Cardinality(SubscribersOf(connections, call[t].kb)) # Cardinality(startSet[t])
    THEN Propagate(t, call[t], removed, startSet[t], attempts[t], lockWaiters)
    ELSE IF pending[t] = {}
    THEN FinishBroadcast(t, call[t], removed, startSet[t], attempts[t], lockWaiters)
    ELSE /\ \E ws \in pending[t] :
                AwaitSend(t, call[t], ws, pending[t] \ {ws}, removed, startSet[t],
                          attempts[t])
         /\ lastDone' = NoDone
         /\ UNCHANGED <<connections, lockHolder, lockWaiters>>

\* await websocket.send_json(...) returns
SendOk(t) ==
    /\ pc[t] = "send"
    /\ sinkState[cur[t]] = "open"
    /\ received' = [received EXCEPT ![cur[t]] =
                       Append(@, [type |-> "progress", data |-> call[t].data])]
    /\ NextSend(t, to_remove[t])
    /\ counted' = NoCount
    /\ UNCHANGED <<sinkState, issued>>

\* await websocket.send_json(...) raises: to_remove.append(websocket)
SendFail(t) ==
    /\ pc[t] = "send"
    /\ sinkState[cur[t]] = "closed"
    /\ \E e \in DeliveryErrors :
           IF Caught(e)
           THEN NextSend(t, Append(to_remove[t], cur[t]))
           ELSE Propagate(t, call[t], to_remove[t], startSet[t], attempts[t],
                          lockWaiters)
    /\ counted' = NoCount
    /\ UNCHANGED <<sinkState, received, issued>>

\* get_connection_count: synchronous, takes no lock
Count(t, kb_name) ==
    /\ pc[t] = "idle"
    /\ counted' = [kb |-> kb_name, n |-> get_connection_count(connections, kb_name)]
    /\ connections' = AfterCount(connections, kb_name)
    /\ lastDone' = NoDone
    /\ UNCHANGED <<lockHolder, lockWaiters, pc, call, pending, cur,
                   to_remove, startSet, attempts, sinkState, received, issued>>

\* the peer of a websocket goes away: send_json raises from now on
SinkClose(s) ==
    /\ sinkState[s] = "open"
    /\ sinkState' = [sinkState EXCEPT ![s] = "closed"]
    /\ lastDone' = NoDone
    /\ counted' = NoCount
    /\ UNCHANGED <<connections, lockHolder, lockWaiters, pc, call, pending, cur,
                   to_remove, startSet, attempts, received, issued>>

\* the peer of a websocket stops reading: send_json never completes from now on
SinkStall(s) ==
    /\ sinkState[s] = "open"
    /\ sinkState' = [sinkState EXCEPT ![s] = "stuck"]
    /\ lastDone' = NoDone
    /\ counted' = NoCount
    /\ UNCHANGED <<connections, lockHolder, lockWaiters, pc, call, pending, cur,
                   to_remove, startSet, attempts, received, issued>>

(***************************************************************************)
(* PerformanceMonitor (src/agents/solve/utils/performance_monitor.py)      *)
(* PerformanceMetrics objects live in a heap (spans), so that the handle a *)
(* scope holds and the object indexed under its name can differ.  track()  *)
(* is a synchronous context manager: entering it is one step, the wrapped  *)
(* operation runs for any number of steps of other tasks, leaving it (the  *)
(* except and finally clauses) is one step.                                *)
(***************************************************************************)
Names  == {"x", "y"}
Scopes == {"s1", "s2"}
\* what a wrapped operation raises
OperationErrors == {"ValueError"}
\* (prompt_tokens, completion_tokens) given to add_tokens
TokenArgs == {<<2, 1>>, <<0, 1>>}

NoTrackRet == [op |-> None, name |-> None, span |-> {}, outcome |-> None,
               exc |-> None, errors_before |-> 0, path |-> {}]

\* PerformanceMetrics(agent_name=agent_name, start_time=time.time())
NewMetrics(agent_name, t) ==
    [agent_name |-> agent_name, start_time |-> t, end_time |-> {},
     duration |-> {}, prompt_tokens |-> 0, completion_tokens |-> 0,
     total_tokens |-> 0, api_calls |-> 0, errors |-> 0,
     custom_metrics |-> [k \in {} |-> None]]

\* PerformanceMetrics.mark_end at clock reading t
mark_end(m, t) ==
    [m EXCEPT !.end_time = {t},
              !.duration = IF m.start_time # 0 THEN {t - m.start_time} ELSE @]

\* the mutation: total_tokens grows by the prompt only
add_tokens_prompt_only(m, prompt, completion) ==
    [m EXCEPT !.prompt_tokens = @ + prompt,
              !.completion_tokens = @ + completion,
              !.total_tokens = @ + prompt]

\* PerformanceMetrics.add_tokens
add_tokens(m, prompt, completion) ==
    [m EXCEPT !.prompt_tokens = @ + prompt,
              !.completion_tokens = @ + completion,
              !.total_tokens = (m.prompt_tokens + prompt) + (m.completion_tokens + completion)]

\* self.custom_metrics[key] = value
set_custom_metric(m, key, value) ==
    [m EXCEPT !.custom_metrics =
        [k \in DOMAIN m.custom_metrics \cup {key} |->
            IF k = key THEN value ELSE m.custom_metrics[k]]]

add_api_call(m) == [m EXCEPT !.api_calls = @ + 1]

add_error(m) == [m EXCEPT !.errors = @ + 1]

\* the value of an optional number that is set
Val(opt) == CHOOSE n \in opt : TRUE

\* `if metrics.duration:` is taken when duration is neither None nor 0.0
Truthy(opt) == opt # {} /\ opt # {0}

RegisterAlways(en, idx, agent_name, a) ==
    [n \in DOMAIN idx \cup {agent_name} |-> IF n = agent_name THEN a ELSE idx[n]]

\* start_tracking: self.metrics[agent_name] = metrics, only when enabled
Register(en, idx, agent_name, a) ==
    IF en
    THEN [n \in DOMAIN idx \cup {agent_name} |-> IF n = agent_name THEN a ELSE idx[n]]
    ELSE idx

\* __init__: if self.enabled: self.save_dir.mkdir(parents=True, exist_ok=True)
Mkdir(en) == en

\* self.save_dir for the save_dir argument given, None being the default
SaveDirOf(dir) == IF dir = None THEN "data/user/performance" ELSE dir

TrackerInit(en) ==
    /\ global_monitor = {}
    /\ enabled = en
    /\ save_dir = SaveDirOf(None)
    /\ save_dir_exists = Mkdir(en)
    /\ files = {}
    /\ metrics = [n \in {} |-> 0]
    /\ spans = <<>>
    /\ total_duration = 0
    /\ total_tokens = 0
    /\ total_api_calls = 0
    /\ total_errors = 0
    /\ now = 1
    /\ scopePc = [sc \in Scopes |-> "out"]
    /\ scopeName = [sc \in Scopes |-> None]
    /\ scopeSpan = [sc \in Scopes |-> {}]
    /\ closedLog = {}
    /\ updates = 0
    /\ trackRet = NoTrackRet

\* start_tracking(agent_name): the new object gets the next heap address
start_tracking(agent_name) ==
    /\ Len(spans) < MaxSpans
    /\ spans' = Append(spans, NewMetrics(agent_name, now))
    /\ metrics' = Register(enabled, metrics, agent_name, Len(spans) + 1)

\* how many mark_end calls on the object at address a the log holds
TimesClosed(log, a) == Cardinality({c \in log : c.span = a})

\* what end_tracking(agent_name) computes, sp being the heap when it is
\* called: the heap, the mark_end it made (if any) and the four totals
AfterEnd(sp, agent_name) ==
    IF enabled /\ agent_name \in DOMAIN metrics
    THEN LET a == metrics[agent_name]
             m == mark_end(sp[a], now)
             fold == Truthy(m.duration)
         IN [spans |-> [sp EXCEPT ![a] = m],
             closed |-> {[span |-> a, nth |-> TimesClosed(closedLog, a) + 1,
                          duration |-> Val(m.duration),
                          total_tokens |-> m.total_tokens,
                          api_calls |-> m.api_calls, errors |-> m.errors]},
             total_duration |->
                 IF fold THEN total_duration + Val(m.duration) ELSE total_duration,
             total_tokens |->
                 IF fold THEN total_tokens + m.total_tokens ELSE total_tokens,
             total_api_calls |->
                 IF fold THEN total_api_calls + m.api_calls ELSE total_api_calls,
             total_errors |->
                 IF fold THEN total_errors + m.errors ELSE total_errors]
    ELSE [spans |-> sp, closed |-> {}, total_duration |-> total_duration,
          total_tokens |-> total_tokens, total_api_calls |-> total_api_calls,
          total_errors |-> total_errors]

\* end_tracking(agent_name), sp being the heap when it is called
end_tracking(sp, agent_name) ==
    LET r == AfterEnd(sp, agent_name)
    IN /\ spans' = r.spans
       /\ closedLog' = closedLog \cup r.closed
       /\ total_duration' = r.total_duration
       /\ total_tokens' = r.total_tokens
       /\ total_api_calls' = r.total_api_calls
       /\ total_errors' = r.total_errors

\* begin(name) called directly
Begin(agent_name) ==
    /\ start_tracking(agent_name)
    /\ trackRet' = NoTrackRet
    /\ UNCHANGED <<global_monitor, enabled, save_dir, save_dir_exists, files, total_duration, total_tokens,
                   total_api_calls, total_errors, now, scopePc, scopeName,
                   scopeSpan, closedLog, updates>>

\* end(name) called directly
End(agent_name) ==
    /\ Cardinality(closedLog) < MaxCloses
    /\ end_tracking(spans, agent_name)
    /\ trackRet' = [NoTrackRet EXCEPT !.op = "end", !.outcome = "returned"]
    /\ UNCHANGED <<global_monitor, enabled, save_dir, save_dir_exists, files, metrics, now, scopePc,
                   scopeName, scopeSpan, updates>>

\* a new frame of track takes the first slot that is not in use
FreeFrame == IF scopePc["s1"] = "out" THEN "s1" ELSE "s2"

\* with monitor.track(agent_name): metrics = self.start_tracking(agent_name)
ScopeEnter(sc, agent_name) ==
    /\ sc = FreeFrame
    /\ scopePc[sc] = "out"
    /\ start_tracking(agent_name)
    /\ scopePc' = [scopePc EXCEPT ![sc] = "body"]
    /\ scopeName' = [scopeName EXCEPT ![sc] = agent_name]
    /\ scopeSpan' = [scopeSpan EXCEPT ![sc] = {Len(spans) + 1}]
    /\ trackRet' = NoTrackRet
    /\ UNCHANGED <<global_monitor, enabled, save_dir, save_dir_exists, files, total_duration, total_tokens,
                   total_api_calls, total_errors, now, closedLog, updates>>

\* the scope is left: its frame is dropped, the caller sees the outcome
ScopeLeave(sc, how, e) ==
    /\ scopePc' = [scopePc EXCEPT ![sc] = "out"]
    /\ scopeName' = [scopeName EXCEPT ![sc] = None]
    /\ scopeSpan' = [scopeSpan EXCEPT ![sc] = {}]
    /\ trackRet' = [op |-> "scope", name |-> scopeName[sc], span |-> scopeSpan[sc],
                    outcome |-> how, exc |-> e,
                    errors_before |-> spans[Val(scopeSpan[sc])].errors, path |-> {}]
    /\ UNCHANGED <<global_monitor, enabled, save_dir, save_dir_exists, files, metrics, now, updates>>

\* the wrapped operation returns: finally: self.end_tracking(agent_name)
ScopeReturn(sc) ==
    /\ scopePc[sc] = "body"
    /\ end_tracking(spans, scopeName[sc])
    /\ ScopeLeave(sc, "returned", None)

\* the except clause of track: if self.enabled: metrics.add_error()
TrackExcept(sp, a, e) ==
    IF enabled /\ Caught(e) THEN [sp EXCEPT ![a] = add_error(@)] ELSE sp

\* the wrapped operation raises e: except Exception: add_error on the scope's
\* own handle when enabled, re-raise; finally: self.end_tracking(agent_name)
ScopeRaise(sc, e) ==
    /\ scopePc[sc] = "body"
    /\ end_tracking(TrackExcept(spans, Val(scopeSpan[sc]), e), scopeName[sc])
    /\ ScopeLeave(sc, "raised", e)

\* the callables track_performance decorates: methods of an object that may
\* have an agent_name attribute, defined with `async def` or with `def`
Targets == {[agent_name |-> "x", func |-> "y", kind |-> "async"],
            [agent_name |-> None, func |-> "y", kind |-> "async"],
            [agent_name |-> "x", func |-> "y", kind |-> "sync"]}

\* agent_name = getattr(self, "agent_name", func.__name__)
WrapName(target) ==
    IF target.agent_name # None THEN target.agent_name ELSE target.func

\* the except clause of wrapper: metrics.add_error() whatever self.enabled is
WrapperExcept(sp, a, e) ==
    IF Caught(e) THEN [sp EXCEPT ![a] = add_error(@)] ELSE sp

\* wrapper(self, ...) is called: metrics = monitor.start_tracking(agent_name),
\* then func runs; "await" while an async func is awaited, "call" while a
\* plain func runs
WrapCall(sc, target) ==
    /\ sc = FreeFrame
    /\ scopePc[sc] = "out"
    /\ start_tracking(WrapName(target))
    /\ scopePc' = [scopePc EXCEPT ![sc] = IF target.kind = "async" THEN "await" ELSE "call"]
    /\ scopeName' = [scopeName EXCEPT ![sc] = WrapName(target)]
    /\ scopeSpan' = [scopeSpan EXCEPT ![sc] = {Len(spans) + 1}]
    /\ trackRet' = NoTrackRet
    /\ UNCHANGED <<global_monitor, enabled, save_dir, save_dir_exists, files, total_duration, total_tokens,
                   total_api_calls, total_errors, now, closedLog, updates>>

\* func raises e: except Exception: metrics.add_error(); raise; finally:
\* monitor.end_tracking(agent_name)
WrapFail(sc, e) ==
    /\ end_tracking(WrapperExcept(spans, Val(scopeSpan[sc]), e), scopeName[sc])
    /\ ScopeLeave(sc, "raised", e)

WrapRaise(sc, e) ==
    /\ scopePc[sc] \in {"await", "call"}
    /\ WrapFail(sc, e)

\* func returns: the awaited coroutine gives the result, which wrapper
\* returns; what a plain func returned is not awaitable, so `await` raises
\* TypeError inside the try
WrapReturn(sc) ==
    \/ /\ scopePc[sc] = "await"
       /\ end_tracking(spans, scopeName[sc])
       /\ ScopeLeave(sc, "returned", None)
    \/ /\ scopePc[sc] = "call"
       /\ WrapFail(sc, "TypeError")

\* the PerformanceMetrics objects callers can reach: through get_metrics and
\* through the handle a scope yields
Handles == {metrics[n] : n \in DOMAIN metrics} \cup UNION {scopeSpan[sc] : sc \in Scopes}

\* a caller updates a PerformanceMetrics object it holds
UpdateUpTo(a, m, limit) ==
    /\ a \in Handles
    /\ updates < limit
    /\ updates' = updates + 1
    /\ spans' = [spans EXCEPT ![a] = m]
    /\ trackRet' = NoTrackRet
    /\ UNCHANGED <<global_monitor, enabled, save_dir, save_dir_exists, files, metrics, total_duration,
                   total_tokens, total_api_calls, total_errors, now, scopePc,
                   scopeName, scopeSpan, closedLog>>

Update(a, m) == UpdateUpTo(a, m, MaxUpdates)

\* get_summary reads the totals and the index
get_summary ==
    /\ trackRet' = NoTrackRet
    /\ UNCHANGED <<global_monitor, enabled, save_dir, save_dir_exists, files, metrics, spans, total_duration,
                   total_tokens, total_api_calls, total_errors, now, scopePc,
                   scopeName, scopeSpan, closedLog, updates>>

\* save(): returns "" when disabled, else writes performance_<timestamp>.json
SavedFiles(en, fs, stamp) == IF en THEN fs \cup {stamp} ELSE fs

\* save() without filepath; open() raises when the directory is missing
save ==
    /\ Cardinality(files) < MaxSaves
    /\ LET fs == SavedFiles(enabled, files, now)
       IN IF fs # files /\ ~save_dir_exists
          THEN /\ files' = files
               /\ trackRet' = [NoTrackRet EXCEPT !.op = "save", !.outcome = "raised",
                                                 !.exc = "FileNotFoundError"]
          ELSE /\ files' = fs
               /\ trackRet' = [NoTrackRet EXCEPT !.op = "save", !.outcome = "returned",
                                                 !.path = fs \ files]
    /\ UNCHANGED <<global_monitor, enabled, save_dir, save_dir_exists, metrics, spans, total_duration,
                   total_tokens, total_api_calls, total_errors, now, scopePc,
                   scopeName, scopeSpan, closedLog, updates>>

\* PerformanceMonitor.reset
TrackerReset ==
    /\ metrics' = [n \in {} |-> 0]
    /\ total_duration' = 0
    /\ total_tokens' = 0
    /\ total_api_calls' = 0
    /\ total_errors' = 0
    /\ closedLog' = {}
    /\ trackRet' = NoTrackRet
    /\ UNCHANGED <<global_monitor, enabled, save_dir, save_dir_exists, files, spans, now, scopePc, scopeName,
                   scopeSpan, updates>>

\* what get_monitor and init_monitor_from_config are called with
EnabledArgs == BOOLEAN
DirArgs == {None, "logs"}
Configs == {[present |-> FALSE, enabled |-> None, save_dir |-> None],
            [present |-> TRUE, enabled |-> "False", save_dir |-> None],
            [present |-> TRUE, enabled |-> None, save_dir |-> "logs"]}

MissingAlways(gm) == TRUE

\* if _global_monitor is None:
Missing(gm) == gm = {}

\* _global_monitor = PerformanceMonitor(enabled=enabled, save_dir=save_dir):
\* a new instance with an empty index and zero totals
Construct(en, dir) ==
    /\ global_monitor' = {IF global_monitor = {} THEN 1 ELSE Val(global_monitor) + 1}
    /\ enabled' = en
    /\ save_dir' = SaveDirOf(dir)
    /\ save_dir_exists' = (save_dir_exists \/ Mkdir(en))
    /\ metrics' = [n \in {} |-> 0]
    /\ total_duration' = 0
    /\ total_tokens' = 0
    /\ total_api_calls' = 0
    /\ total_errors' = 0

\* get_monitor(enabled, save_dir): the instance is made on the first call only
get_monitor(en, dir) ==
    /\ IF Missing(global_monitor)
       THEN Construct(en, dir)
       ELSE UNCHANGED <<global_monitor, enabled, save_dir, save_dir_exists, metrics,
                        total_duration, total_tokens, total_api_calls, total_errors>>
    /\ trackRet' = NoTrackRet
    /\ UNCHANGED <<files, spans, now, scopePc, scopeName, scopeSpan, closedLog,
                   updates>>

\* init_monitor_from_config(config): monitoring.enabled defaults to True and
\* monitoring.save_dir to "./logs/performance"
init_monitor_from_config(config) ==
    get_monitor(IF config.present /\ config.enabled # None
                THEN config.enabled = "True" ELSE TRUE,
                IF config.present /\ config.save_dir # None
                THEN config.save_dir ELSE "./logs/performance")

\* time passes: the next time.time() reads a later value
Tick ==
    /\ now < MaxTime
    /\ now' = now + 1
    /\ trackRet' = NoTrackRet
    /\ UNCHANGED <<global_monitor, enabled, save_dir, save_dir_exists, files, metrics, spans, total_duration,
                   total_tokens, total_api_calls, total_errors, scopePc, scopeName,
                   scopeSpan, closedLog, updates>>

(***************************************************************************)
(* JSON recovery: texts are sequences of characters, values are what       *)
(* json.loads builds from them                                             *)
(***************************************************************************)
\* the characters \s, str.strip() and the JSON scanner skip
Whitespace == {" ", "\n"}
Digits == {"0", "1"}
Quote == "\""
Backslash == "\\"
\* the backtick, written ' here; three of them are the fence both regular
\* expressions look for
Backtick == "'"
Fence == <<Backtick, Backtick, Backtick>>
Tag == <<"j", "s", "o", "n">>

\* a Python value json.loads can return: dict (names and items in insertion
\* order), list (items), str (chars), int (chars: its digits), or None
JValue(kind, chars, names, items) ==
    [kind |-> kind, chars |-> chars, names |-> names, items |-> items]
NoValue == JValue("None", <<>>, <<>>, <<>>)
EmptyObject == JValue("dict", <<>>, <<>>, <<>>)
EmptyArray == JValue("list", <<>>, <<>>, <<>>)

\* a scanner's result: the value and the index after it, or the exception:
\* JSONDecodeError for a malformed text, RecursionError for containers
\* nested deeper than the interpreter lets the scanner recurse
Parsed(v, n) == [ok |-> TRUE, val |-> v, next |-> n, error |-> None]
Failed == [ok |-> FALSE, val |-> NoValue, next |-> 0, error |-> "JSONDecodeError"]
TooDeep == [ok |-> FALSE, val |-> NoValue, next |-> 0, error |-> "RecursionError"]

RECURSIVE SkipSpace(_, _)
SkipSpace(s, i) ==
    IF i <= Len(s) /\ s[i] \in Whitespace THEN SkipSpace(s, i + 1) ELSE i

\* a string literal from the character after its opening quote; strict mode:
\* a raw newline inside it is an error, as is an escape other than \" \\ \n
RECURSIVE scanstring(_, _, _)
scanstring(s, i, acc) ==
    IF i > Len(s) THEN Failed
    ELSE IF s[i] = Quote THEN Parsed(JValue("str", acc, <<>>, <<>>), i + 1)
    ELSE IF s[i] = "\n" THEN Failed
    ELSE IF s[i] = Backslash THEN
        IF i + 1 > Len(s) THEN Failed
        ELSE IF s[i + 1] \in {Quote, Backslash}
             THEN scanstring(s, i + 2, Append(acc, s[i + 1]))
        ELSE IF s[i + 1] = "n" THEN scanstring(s, i + 2, Append(acc, "\n"))
        ELSE Failed
    ELSE scanstring(s, i + 1, Append(acc, s[i]))

RECURSIVE ScanDigits(_, _)
ScanDigits(s, i) ==
    IF i <= Len(s) /\ s[i] \in Digits THEN ScanDigits(s, i + 1) ELSE i
\* an integer literal at i: 0, or a non-zero digit and the digits after it
Number(s, i) ==
    LET e == IF s[i] = "0" THEN i + 1 ELSE ScanDigits(s, i)
    IN  Parsed(JValue("int", SubSeq(s, i, e - 1), <<>>, <<>>), e)

\* d[k] = v on a dict: a name already present keeps its place
Put(d, k, v) ==
    IF \E j \in 1..Len(d.names) : d.names[j] = k
    THEN LET j == CHOOSE j \in 1..Len(d.names) : d.names[j] = k
         IN  [d EXCEPT !.items[j] = v]
    ELSE [d EXCEPT !.names = Append(@, k), !.items = Append(@, v)]

RECURSIVE scan_once(_, _, _), JSONObject(_, _, _, _), JSONArray(_, _, _, _)
\* the value that starts at character i, inside depth open containers
scan_once(s, i, depth) ==
    IF i > Len(s) THEN Failed
    ELSE IF s[i] = Quote THEN scanstring(s, i + 1, <<>>)
    ELSE IF s[i] \in {"{", "["} /\ depth >= RecursionLimit THEN TooDeep
    ELSE IF s[i] = "{" THEN
        LET j == SkipSpace(s, i + 1)
        IN  IF j <= Len(s) /\ s[j] = "}" THEN Parsed(EmptyObject, j + 1)
            ELSE JSONObject(s, j, EmptyObject, depth + 1)
    ELSE IF s[i] = "[" THEN
        LET j == SkipSpace(s, i + 1)
        IN  IF j <= Len(s) /\ s[j] = "]" THEN Parsed(EmptyArray, j + 1)
            ELSE JSONArray(s, j, EmptyArray, depth + 1)
    ELSE IF s[i] \in Digits THEN Number(s, i)
    ELSE Failed
\* the pairs of an object from i, where the next name must start
JSONObject(s, i, d, depth) ==
    IF ~(i <= Len(s) /\ s[i] = Quote) THEN Failed
    ELSE LET k == scanstring(s, i + 1, <<>>) IN
    IF ~k.ok THEN Failed
    ELSE LET c == SkipSpace(s, k.next) IN
    IF ~(c <= Len(s) /\ s[c] = ":") THEN Failed
    ELSE LET v == scan_once(s, SkipSpace(s, c + 1), depth) IN
    IF ~v.ok THEN v
    ELSE LET e == SkipSpace(s, v.next)
             d2 == Put(d, k.val.chars, v.val) IN
    IF e > Len(s) THEN Failed
    ELSE IF s[e] = "}" THEN Parsed(d2, e + 1)
    ELSE IF s[e] = "," THEN JSONObject(s, SkipSpace(s, e + 1), d2, depth)
    ELSE Failed
\* the items of an array from i, where the next item must start
JSONArray(s, i, l, depth) ==
    LET v == scan_once(s, i, depth) IN
    IF ~v.ok THEN v
    ELSE LET e == SkipSpace(s, v.next)
             l2 == [l EXCEPT !.items = Append(@, v.val)] IN
    IF e > Len(s) THEN Failed
    ELSE IF s[e] = "]" THEN Parsed(l2, e + 1)
    ELSE IF s[e] = "," THEN JSONArray(s, SkipSpace(s, e + 1), l2, depth)
    ELSE Failed

\* json.loads(s): one value, with only whitespace around it
loads(s) ==
    LET r == scan_once(s, SkipSpace(s, 1), 0)
    IN  IF r.ok /\ SkipSpace(s, r.next) <= Len(s) THEN Failed ELSE r
\* `except json.JSONDecodeError` lets every other exception through
Escapes(r) == ~r.ok /\ r.error # "JSONDecodeError"

\* str.strip()
strip(s) ==
    LET ink == {j \in 1..Len(s) : s[j] \notin Whitespace}
    IN  IF ink = {} THEN <<>>
        ELSE SubSeq(s, CHOOSE a \in ink : \A j \in ink : a <= j,
                       CHOOSE b \in ink : \A j \in ink : j <= b)

Least(S) == CHOOSE a \in S : \A b \in S : a <= b
Greatest(S) == CHOOSE a \in S : \A b \in S : b <= a
StartsAt(s, i, w) ==
    i + Len(w) - 1 <= Len(s) /\ SubSeq(s, i, i + Len(w) - 1) = w
FenceStarts(s) == {i \in 1..Len(s) : StartsAt(s, i, Fence)}
\* after the fence that opens at i: the optional tag json, then \s*
BodyStart(s, i) ==
    SkipSpace(s, IF StartsAt(s, i + 3, Tag) THEN i + 7 ELSE i + 3)
Match(g) == [found |-> TRUE, group |-> g]
NoMatch == [found |-> FALSE, group |-> <<>>]

\* re.search(r"```(?:json)?\s*([\s\S]*?)\s*```", text): the leftmost opening
\* fence that has a closing one, and the shortest group before \s* and it
code_block(s) ==
    LET Ends(i) == {p \in BodyStart(s, i)..(Len(s) + 1) :
                        SkipSpace(s, p) \in FenceStarts(s)}
        opens == {i \in FenceStarts(s) : Ends(i) # {}}
    IN  IF opens = {} THEN NoMatch
        ELSE LET i == Least(opens)
             IN  Match(SubSeq(s, BodyStart(s, i), Least(Ends(i)) - 1))

\* re.search(r"```(?:json)?\s*\n?(.*?)```", response, re.DOTALL): the group
\* runs to the first fence at or after the body's start
json_match(s) ==
    LET Closers(i) == {q \in FenceStarts(s) : q >= BodyStart(s, i)}
        opens == {i \in FenceStarts(s) : Closers(i) # {}}
    IN  IF opens = {} THEN NoMatch
        ELSE LET i == Least(opens)
             IN  Match(SubSeq(s, BodyStart(s, i), Least(Closers(i)) - 1))

\* re.search of a greedy span: from the first opener to the last closer
Span(s, opener, closer) ==
    LET os == {i \in 1..Len(s) : s[i] = opener}
        cs == {i \in 1..Len(s) : s[i] = closer}
    IN  IF os = {} \/ cs = {} THEN NoMatch
        ELSE IF Greatest(cs) < Least(os) THEN NoMatch
        ELSE Match(SubSeq(s, Least(os), Greatest(cs)))
obj_match(s) == Span(s, "{", "}")
arr_match(s) == Span(s, "[", "]")

\* what a recovery call gave back, and the return statement that did it
NoRecovery == [fn |-> None, outcome |-> None, value |-> NoValue, tier |-> None]
Recovery(fn, r) ==
    [fn |-> fn, outcome |-> r.outcome, value |-> r.value, tier |-> r.tier]
Gives(v, tier) == [outcome |-> "returned", value |-> v, tier |-> tier]
Raises(e, tier) == [outcome |-> e, value |-> NoValue, tier |-> tier]

extract_json_from_text(t) ==
    LET cb == code_block(t)
        snippet == loads(strip(cb.group))
        whole == loads(t)
        obj == loads(obj_match(t).group)
        arr == loads(arr_match(t).group)
    IN  IF t = <<>> THEN Gives(NoValue, None)
        ELSE IF cb.found /\ snippet.ok THEN Gives(snippet.val, "code_block")
        ELSE IF cb.found /\ Escapes(snippet) THEN Raises(snippet.error, "code_block")
        ELSE IF whole.ok THEN Gives(whole.val, "direct")
        ELSE IF Escapes(whole) THEN Raises(whole.error, "direct")
        ELSE IF obj_match(t).found /\ obj.ok THEN Gives(obj.val, "object")
        ELSE IF obj_match(t).found /\ Escapes(obj) THEN Raises(obj.error, "object")
        ELSE IF arr_match(t).found /\ arr.ok THEN Gives(arr.val, "array")
        ELSE IF arr_match(t).found /\ Escapes(arr) THEN Raises(arr.error, "array")
        ELSE Gives(NoValue, None)

\* repair_json: None when json_repair is not installed; else the library,
\* which raises or returns a text for the text it is given
NotInstalled == [installed |-> FALSE, raises |-> FALSE, chars |-> <<>>]
Library(raises, chars) == [installed |-> TRUE, raises |-> raises, chars |-> chars]

parse_json_response(response, fb) ==
    LET fallback_ == IF fb = NoValue THEN EmptyObject ELSE fb
        jm == json_match(response)
        fenced == FenceStarts(response) # {} /\ jm.found
        extracted_response ==
            IF fenced THEN strip(jm.group) ELSE response
        first == loads(extracted_response)
        result == loads(repair_json.chars)
    IN  IF response = <<>> \/ strip(response) = <<>>
        THEN Gives(fallback_, "fallback")
        ELSE IF first.ok
        THEN Gives(first.val, IF fenced THEN "code_block" ELSE "direct")
        ELSE IF Escapes(first)
        THEN Raises(first.error, IF fenced THEN "code_block" ELSE "direct")
        ELSE IF ~repair_json.installed THEN Gives(fallback_, "fallback")
        ELSE IF repair_json.raises THEN Gives(fallback_, "fallback")
        ELSE IF result.ok THEN Gives(result.val, "repaired")
        ELSE Gives(fallback_, "fallback")

(***************************************************************************)
(* Validation helpers                                                      *)
(***************************************************************************)
Has(d, k) == \E j \in 1..Len(d.names) : d.names[j] = k
NoCheck == [outcome |-> None, named |-> <<>>, ref |-> None]
\* the mutation: stops at the first absent key
first_missing(d, ks) ==
    LET m == SelectSeq(ks, LAMBDA k : ~Has(d, k))
    IN  IF m = <<>> THEN <<>> ELSE <<m[1]>>
\* missing = [k for k in keys if k not in data]
missing(d, ks) == SelectSeq(ks, LAMBDA k : ~Has(d, k))
\* raises KeyError with the joined names, or returns the object it was given
ensure_keys(d, ks) ==
    IF missing(d, ks) # <<>>
    THEN [outcome |-> "KeyError", named |-> missing(d, ks), ref |-> None]
    ELSE [outcome |-> "returned", named |-> <<>>, ref |-> "data"]

\* no helper has been called and no argument is set
JsonIdle ==
    /\ text = <<>>
    /\ fallback = NoValue
    /\ repair_json = NotInstalled
    /\ recovered = NoRecovery
    /\ data = EmptyObject
    /\ keys = <<>>
    /\ checked = NoCheck

(***************************************************************************)
(* Specifications                                                          *)
(***************************************************************************)
Init == CitationInit /\ HubInit /\ JsonIdle /\ TrackerInit(TRUE)

Allocate ==
    /\ \E t \in CiteTasks, args \in ArgTuples : allocate_citation_id(t, args)
    /\ UNCHANGED <<writes, handed, hubVars, trackVars, jsonVars>>
Lookup ==
    /\ \E t \in CiteTasks, id \in IdUniverse : get_citation_info(t, id)
    /\ UNCHANGED <<writes, handed, hubVars, trackVars, jsonVars>>
GetAll ==
    /\ \E t \in CiteTasks : get_all_citations(t)
    /\ UNCHANGED <<writes, handed, hubVars, trackVars, jsonVars>>
Reset ==
    /\ \E t \in CiteTasks : reset(t)
    /\ UNCHANGED <<writes, handed, hubVars, trackVars, jsonVars>>

\* the registry driven through its four methods only
CiteNext ==
    \/ Allocate
    \/ Lookup
    \/ GetAll
    \/ Reset

SpecCite == Init /\ [][CiteNext]_vars

OneRunAllocate ==
    /\ \E args \in ArgTuples : allocate_citation_id("run1", args)
    /\ UNCHANGED <<writes, handed, hubVars, trackVars, jsonVars>>
CallerAdd ==
    /\ CallerWrite
    /\ \E k \in CallerKeys : CallerAddEntry(k)
    /\ UNCHANGED <<handed, hubVars, trackVars, jsonVars>>
CallerDel ==
    /\ CallerWrite
    /\ \E k \in CallerKeys : CallerDelEntry(k)
    /\ UNCHANGED <<handed, hubVars, trackVars, jsonVars>>
CallerSet ==
    /\ CallerWrite
    /\ \E k \in CallerKeys, f \in CallerFields, v \in CallerValues : CallerSetField(k, f, v)
    /\ UNCHANGED <<handed, hubVars, trackVars, jsonVars>>

\* a write of the caller to the dict that get_all_citations returned, or to a
\* record in it
CallerStep == CallerAdd \/ CallerDel \/ CallerSet

\* the registry used by one run, whose caller also writes to the dict that
\* get_all_citations returned
CiteAliasNext ==
    \/ OneRunAllocate
    \/ Lookup
    \/ GetAll
    \/ Reset
    \/ CallerAdd
    \/ CallerDel
    \/ CallerSet

SpecCiteAlias == Init /\ [][CiteAliasNext]_vars

\* a run starts: it calls reset on the singleton
RunStarts ==
    /\ \E t \in CiteTasks :
           /\ reset(t)
           /\ handed' = [handed EXCEPT ![t] = {<<>>}]
    /\ UNCHANGED <<writes, hubVars, trackVars, jsonVars>>
\* a run that has started allocates an id for one of its citations
RunAllocates ==
    /\ \E t \in CiteTasks, args \in ArgTuples :
           /\ handed[t] # {}
           /\ allocate_citation_id(t, args)
           /\ handed' = [handed EXCEPT ![t] = {Append(h, ret'.val) : h \in @}]
    /\ UNCHANGED <<writes, hubVars, trackVars, jsonVars>>

\* runs interleaved on the one CitationManager instance of the process
RunsNext ==
    \/ RunStarts
    \/ RunAllocates

SpecRuns == Init /\ [][RunsNext]_vars

Connect ==
    /\ \E t \in HubTasks, sub \in Subscriptions : connect(t, sub[1], sub[2])
    /\ UNCHANGED <<citeVars, trackVars, jsonVars>>
Disconnect ==
    /\ \E t \in HubTasks, sub \in Subscriptions : disconnect(t, sub[1], sub[2])
    /\ UNCHANGED <<citeVars, trackVars, jsonVars>>
Broadcast ==
    /\ \E t \in HubTasks, kb \in Channels : broadcast(t, kb)
    /\ UNCHANGED <<citeVars, trackVars, jsonVars>>
Wake ==
    /\ \E t \in HubTasks : Resume(t)
    /\ UNCHANGED <<citeVars, trackVars, jsonVars>>
Delivered ==
    /\ \E t \in HubTasks : SendOk(t)
    /\ UNCHANGED <<citeVars, trackVars, jsonVars>>
DeliveryFailed ==
    /\ \E t \in HubTasks : SendFail(t)
    /\ UNCHANGED <<citeVars, trackVars, jsonVars>>
GetCount ==
    /\ \E t \in HubTasks, kb \in Channels : Count(t, kb)
    /\ UNCHANGED <<citeVars, trackVars, jsonVars>>
PeerGone ==
    /\ \E s \in Closable : SinkClose(s)
    /\ UNCHANGED <<citeVars, trackVars, jsonVars>>
PeerStalls ==
    /\ \E s \in Stallable : SinkStall(s)
    /\ UNCHANGED <<citeVars, trackVars, jsonVars>>

\* the steps of task t that the event loop runs when they are ready
TaskStep(t) == (Resume(t) \/ SendOk(t) \/ SendFail(t)) /\ UNCHANGED <<citeVars, trackVars, jsonVars>>

\* the hub used by the tasks of one event loop
HubNext ==
    \/ Connect
    \/ Disconnect
    \/ Broadcast
    \/ Wake
    \/ Delivered
    \/ DeliveryFailed
    \/ GetCount
    \/ PeerGone
    \/ PeerStalls

SpecHub == Init /\ [][HubNext]_vars

\* the event loop runs every task that is ready to run
FairSpecHub == SpecHub /\ \A t \in HubTasks : WF_vars(TaskStep(t))

\* the tracker constructed with enabled = False
InitOff == CitationInit /\ HubInit /\ JsonIdle /\ TrackerInit(FALSE)

BeginSpan ==
    /\ \E n \in Names : Begin(n)
    /\ UNCHANGED <<citeVars, hubVars, jsonVars>>
EndSpan ==
    /\ \E n \in Names : End(n)
    /\ UNCHANGED <<citeVars, hubVars, jsonVars>>
EnterScope ==
    /\ \E sc \in Scopes, n \in Names : ScopeEnter(sc, n)
    /\ UNCHANGED <<citeVars, hubVars, jsonVars>>
ScopeReturns ==
    /\ \E sc \in Scopes : ScopeReturn(sc)
    /\ UNCHANGED <<citeVars, hubVars, jsonVars>>
ScopeRaises ==
    /\ \E sc \in Scopes, e \in OperationErrors : ScopeRaise(sc, e)
    /\ UNCHANGED <<citeVars, hubVars, jsonVars>>
AddTokens ==
    /\ \E a \in DOMAIN spans, pc_ \in TokenArgs :
           Update(a, add_tokens(spans[a], pc_[1], pc_[2]))
    /\ UNCHANGED <<citeVars, hubVars, jsonVars>>
AddApiCall ==
    /\ \E a \in DOMAIN spans : Update(a, add_api_call(spans[a]))
    /\ UNCHANGED <<citeVars, hubVars, jsonVars>>
AddError ==
    /\ \E a \in DOMAIN spans : Update(a, add_error(spans[a]))
    /\ UNCHANGED <<citeVars, hubVars, jsonVars>>
Summary ==
    /\ get_summary
    /\ UNCHANGED <<citeVars, hubVars, jsonVars>>
Save ==
    /\ save
    /\ UNCHANGED <<citeVars, hubVars, jsonVars>>
ResetTracker ==
    /\ TrackerReset
    /\ UNCHANGED <<citeVars, hubVars, jsonVars>>
ClockTick ==
    /\ Tick
    /\ UNCHANGED <<citeVars, hubVars, jsonVars>>

TrackNext ==
    \/ BeginSpan
    \/ EndSpan
    \/ EnterScope
    \/ ScopeReturns
    \/ ScopeRaises
    \/ AddTokens
    \/ AddApiCall
    \/ AddError
    \/ Summary
    \/ Save
    \/ ResetTracker
    \/ ClockTick

SpecTrack == Init /\ [][TrackNext]_vars

SpecTrackOff == InitOff /\ [][TrackNext]_vars

\* the tracker constructed enabled or disabled
InitAny == CitationInit /\ HubInit /\ JsonIdle /\ \E en \in BOOLEAN : TrackerInit(en)

WrapperCalled ==
    /\ \E sc \in Scopes, target \in Targets : WrapCall(sc, target)
    /\ UNCHANGED <<citeVars, hubVars, jsonVars>>
WrapperReturns ==
    /\ \E sc \in Scopes : WrapReturn(sc)
    /\ UNCHANGED <<citeVars, hubVars, jsonVars>>
WrapperRaises ==
    /\ \E sc \in Scopes, e \in OperationErrors : WrapRaise(sc, e)
    /\ UNCHANGED <<citeVars, hubVars, jsonVars>>

WrapNext ==
    \/ WrapperCalled
    \/ WrapperReturns
    \/ WrapperRaises
    \/ EnterScope
    \/ ScopeReturns
    \/ ScopeRaises
    \/ AddTokens
    \/ AddApiCall
    \/ ClockTick

SpecWrap == InitAny /\ [][WrapNext]_vars

\* the PerformanceMetrics API exercised on the objects the tracker indexes
\* under one agent name, between start_tracking and end_tracking calls
MetricsBegin ==
    /\ Begin("x")
    /\ UNCHANGED <<citeVars, hubVars, jsonVars>>
MetricsEnd ==
    /\ End("x")
    /\ UNCHANGED <<citeVars, hubVars, jsonVars>>
TokensAdded ==
    /\ \E a \in DOMAIN spans, pc_ \in TokenArgs :
           UpdateUpTo(a, add_tokens(spans[a], pc_[1], pc_[2]), MaxMetricCalls)
    /\ UNCHANGED <<citeVars, hubVars, jsonVars>>
ApiCallAdded ==
    /\ \E a \in DOMAIN spans : UpdateUpTo(a, add_api_call(spans[a]), MaxMetricCalls)
    /\ UNCHANGED <<citeVars, hubVars, jsonVars>>
ErrorAdded ==
    /\ \E a \in DOMAIN spans : UpdateUpTo(a, add_error(spans[a]), MaxMetricCalls)
    /\ UNCHANGED <<citeVars, hubVars, jsonVars>>
CustomMetricSet ==
    /\ \E a \in DOMAIN spans :
           UpdateUpTo(a, set_custom_metric(spans[a], "model", "m1"), MaxMetricCalls)
    /\ UNCHANGED <<citeVars, hubVars, jsonVars>>

MetricsNext ==
    \/ MetricsBegin
    \/ MetricsEnd
    \/ TokensAdded
    \/ ApiCallAdded
    \/ ErrorAdded
    \/ CustomMetricSet

SpecMetrics == Init /\ [][MetricsNext]_vars

\* the process-wide monitor: no instance before the first get_monitor; the
\* callers then use the instance get_monitor gave them
GetMonitor ==
    /\ \E en \in EnabledArgs, dir \in DirArgs : get_monitor(en, dir)
    /\ UNCHANGED <<citeVars, hubVars, jsonVars>>
InitFromConfig ==
    /\ \E config \in Configs : init_monitor_from_config(config)
    /\ UNCHANGED <<citeVars, hubVars, jsonVars>>
MonitorBegin ==
    /\ global_monitor # {}
    /\ MetricsBegin
MonitorEnd ==
    /\ global_monitor # {}
    /\ MetricsEnd
MonitorTick ==
    /\ global_monitor # {}
    /\ ClockTick

MonitorNext ==
    \/ GetMonitor
    \/ InitFromConfig
    \/ MonitorBegin
    \/ MonitorEnd
    \/ MonitorTick

SpecMonitor == InitOff /\ [][MonitorNext]_vars

(***************************************************************************)
(* Citation registry: properties                                           *)
(***************************************************************************)
\* the number n of a citation id "[n]"
ParseId(id) == CHOOSE n \in 0 .. MaxAllocs + 1 : FormatId(n) = id

\* the ids handed out since the last reset
CurrentIds == {returned[i].id : i \in 1 .. Len(returned)}

\* what lookup and all() show of the registry: id -> fields of the record
RegistryView ==
    [k \in DOMAIN dicts[citation_map] |-> records[dicts[citation_map][k]]]

\* C1: on a fresh or just reset registry the n-th allocate call returns
\* "[n]" whatever its arguments, and all() then has exactly the keys
\* "[1]" .. "[n]"; the first allocate after a reset returns "[1]" again.
C1_NthAllocateReturnsN ==
    /\ \A i \in 1 .. Len(returned) : returned[i].id = FormatId(i)
    /\ ret.op = "allocate" => ret.val = FormatId(Len(returned))
    /\ DOMAIN RegistryView = {FormatId(i) : i \in 1 .. Len(returned)}
    /\ ret.op = "all" =>
           \A sd \in ret.ref :
               DOMAIN dicts[sd] = {FormatId(i) : i \in 1 .. Len(returned)}

\* two allocations of the same knowledge item after a reset, then all()
C1_Witness ==
    /\ retired # {}
    /\ Len(returned) = 2
    /\ returned[1].id = "[1]" /\ returned[2].id = "[2]"
    /\ returned[1].args.knowledge_id = returned[2].args.knowledge_id
    /\ ret.op = "all"
    /\ \A sd \in ret.ref : DOMAIN dicts[sd] = {"[1]", "[2]"}

\* C2: in every state reachable by allocate, lookup, all and reset calls the
\* counter equals the number of records held, the record keys are exactly
\* "[1]" .. "[counter]", and each record's citation_id field is its key.
C2_CounterMatchesRecords ==
    LET d == dicts[citation_map]
    IN  /\ citation_counter = Cardinality(DOMAIN d)
        /\ DOMAIN d = {FormatId(i) : i \in 1 .. citation_counter}
        /\ \A k \in DOMAIN d : records[d[k]].citation_id = k

\* a second run of the registry that holds two records
C2_Witness ==
    /\ retired = {"[1]"}
    /\ citation_counter = 2
    /\ Cardinality(DOMAIN dicts[citation_map]) = 2

\* C3: when several cooperatively scheduled tasks call allocate on the same
\* registry with no reset in between, no two calls return the same id and
\* the ids are handed out in the order the calls arrive.
C3_DistinctAndOrdered ==
    \A i, j \in 1 .. Len(returned) :
        i < j => /\ returned[i].id # returned[j].id
                 /\ ParseId(returned[i].id) < ParseId(returned[j].id)

\* three calls of two tasks, interleaved
C3_Witness ==
    /\ Len(returned) = 3
    /\ returned[1].task = "run1"
    /\ returned[2].task = "run2"
    /\ returned[3].task = "run1"

\* C4: nothing a caller does to the value returned by all() (adding or
\* deleting entries, changing a field of a returned record) changes what a
\* later lookup or all() returns.
C4_SnapshotIsolated == [][CallerStep => RegistryView' = RegistryView]_vars

\* C5: lookup(id) returns the record stored by the allocate call that
\* returned id since the last reset, with the knowledge_id, reference_id,
\* source and content given to that call; it returns absent for every id not
\* allocated since the last reset, ids allocated before that reset included.
C5_LookupReturnsStored ==
    /\ ret.op = "lookup" =>
           IF ret.arg \in CurrentIds
           THEN /\ ret.ref # {}
                /\ \A a \in ret.ref, i \in 1 .. Len(returned) :
                       returned[i].id = ret.arg =>
                           records[a] = MakeRecord(returned[i].args, ret.arg)
           ELSE ret.ref = {}
    /\ \A id \in IdUniverse \cup retired :
           id \notin CurrentIds => DictGet(dicts[citation_map], id) = {}

\* a lookup of an id of the previous run that the current run has not reached
C5_Witness ==
    /\ ret.op = "lookup"
    /\ ret.arg \in retired \ CurrentIds
    /\ ret.ref = {}
    /\ CurrentIds # {}

\* a lookup that returns the record of the second allocation
C5_WitnessFound ==
    /\ ret.op = "lookup"
    /\ ret.arg = "[2]"
    /\ \E a \in ret.ref : records[a].knowledge_id = returned[2].args.knowledge_id

(***************************************************************************)
(* Progress hub: properties                                                *)
(***************************************************************************)
\* websocket s was sent the message of broadcast number d
DeliveredTo(s, d) == \E i \in 1 .. Len(received[s]) : received[s][i].data = d

\* C6: broadcast attempts delivery of the event exactly once to every sink
\* subscribed to the channel when the broadcast starts (takes the hub lock
\* and begins to iterate), a failure on one sink not stopping the attempts on
\* the others; when it returns the channel's subscribers are exactly the
\* previous ones minus those whose delivery failed, and the channel entry is
\* removed if none remain.
C6_BroadcastPrunesFailed ==
    lastDone.kb # None =>
        /\ Range(lastDone.attempts) = lastDone.start
        /\ Len(lastDone.attempts) = Cardinality(lastDone.start)
        /\ Range(lastDone.failed) =
               {s \in lastDone.start : ~DeliveredTo(s, lastDone.data)}
        /\ lastDone.after = {s \in lastDone.start : DeliveredTo(s, lastDone.data)}
        /\ SubscribersOf(connections, lastDone.kb) = lastDone.after
        /\ lastDone.kb \in DOMAIN connections <=> lastDone.after # {}

\* two subscribers, the first one reached is closed: the second still gets the
\* event and is the only subscriber left
C6_Witness ==
    /\ lastDone.kb = "kb1"
    /\ lastDone.start = {"ws1", "ws2"}
    /\ lastDone.attempts = <<"ws1", "ws2">>
    /\ lastDone.failed = <<"ws1">>
    /\ connections["kb1"] = {"ws2"}
    /\ get_connection_count(connections, "kb1") = 1
    /\ DeliveredTo("ws2", lastDone.data)
    /\ received["ws1"] = <<>>

\* C7: after any sequence of subscribe, unsubscribe and broadcast calls, and
\* at every point where another task can observe the hub, every channel in
\* the hub's map has at least one subscriber; count(channel) is 0 exactly
\* when the channel has no entry.
C7_NoEmptyChannel ==
    /\ \A kb \in DOMAIN connections : connections[kb] # {}
    /\ \A kb \in Channels :
           get_connection_count(connections, kb) = 0 <=> kb \notin DOMAIN connections
    /\ counted.kb # None => (counted.n = 0 <=> counted.kb \notin DOMAIN connections)

\* a broadcast whose pruning emptied the channel has just returned
C7_Witness ==
    /\ lastDone.kb # None
    /\ lastDone.start # {}
    /\ lastDone.after = {}
    /\ lastDone.kb \notin DOMAIN connections
    /\ DOMAIN connections # {}

\* a count of 0 is observed while a broadcast on another channel is in flight
C7_WitnessCount ==
    /\ counted.kb # None
    /\ counted.n = 0
    /\ \E t \in HubTasks : pc[t] = "send" /\ call[t].kb # counted.kb

\* C8: no subscribe, unsubscribe or prune step changes a channel's subscriber
\* set while another hub operation is reading or changing that set; the set a
\* broadcast iterates over is not changed by any other task until that
\* broadcast has finished, under every interleaving.
C8_MutualExclusion ==
    /\ [](\A t \in HubTasks :
              pc[t] = "send" =>
                  /\ lockHolder = t
                  /\ SubscribersOf(connections, call[t].kb) = startSet[t])
    /\ [][\A t \in HubTasks :
              (pc[t] = "send" /\ pc'[t] = "send") =>
                  SubscribersOf(connections', call[t].kb) =
                      SubscribersOf(connections, call[t].kb)]_vars

\* an unsubscribe on the channel arrives while a broadcast iterates over it
C8_Witness ==
    \E t, u \in HubTasks :
        /\ pc[t] = "send"
        /\ pc[u] = "wait"
        /\ call[u].op = "disconnect"
        /\ call[u].kb = call[t].kb
        /\ call[u].ws \in startSet[t]

\* C9: during a broadcast a subscriber whose delivery is slow or never
\* completes does not prevent delivery of the event to the channel's other
\* subscribers, nor the removal (unsubscribe or pruning) of other subscribers.
C9_StuckDoesNotBlock ==
    \A t \in HubTasks :
        (pc[t] = "send" /\ sinkState[cur[t]] = "stuck") =>
            /\ pending[t] = {}
            /\ to_remove[t] = <<>>
            /\ \A u \in HubTasks : pc[u] = "wait" => call[u].op # "disconnect"

\* C10: every broadcast call eventually returns, even when a subscriber's
\* delivery never completes.
C10_BroadcastReturns ==
    \A t \in HubTasks :
        (call[t].op = "broadcast" /\ pc[t] # "idle") ~> (pc[t] = "idle")

\* C11: two events that one caller broadcasts to one channel, the second
\* call made after the first has returned, reach every sink that receives
\* both in that order, whatever subscribe, unsubscribe and broadcast calls
\* other tasks interleave.  Broadcasts are numbered in the order they are
\* called and a caller calls its second only after its first has returned, so
\* its first has the smaller number: it suffices (and is more) that every
\* sink receives the events it receives in increasing call number.
C11_ReceivedInCallOrder ==
    \A s \in Sinks :
        \A i, j \in 1 .. Len(received[s]) :
            i < j => received[s][i].data < received[s][j].data

\* a sink has received two events on the channel while the other task's
\* unsubscribe of that sink is queued behind the second broadcast
C11_Witness ==
    \E s \in Sinks, t, u \in HubTasks :
        /\ Len(received[s]) = 2
        /\ received[s][1].data = 1
        /\ received[s][2].data = 2
        /\ pc[t] = "send"
        /\ call[t].data = 2
        /\ pc[u] = "wait"
        /\ call[u].op = "disconnect"
        /\ call[u].ws = s

\* C12: a delivery failure on any subscriber is never raised to the caller of
\* broadcast: the call returns normally even when every delivery fails.
C12_FailureNotRaised ==
    lastDone.kb # None => lastDone.outcome = "returned"

\* a broadcast to two subscribers has returned after both deliveries failed
C12_Witness ==
    /\ lastDone.kb # None
    /\ lastDone.outcome = "returned"
    /\ Cardinality(lastDone.start) = 2
    /\ Range(lastDone.failed) = lastDone.start

\* C13: a broadcast on a channel that has no entry delivers nothing to any
\* sink and leaves the hub's channel map unchanged, and count on such a
\* channel returns 0 without creating an entry.
C13_AbsentChannelNoOp ==
    [][/\ \A t \in HubTasks :
              ( /\ IF pc[t] = "idle"
                   THEN \E kb \in Channels \ DOMAIN connections :
                            broadcast(t, kb) /\ LockFree(lockHolder, lockWaiters)
                   ELSE /\ Resume(t)
                        /\ call[t].op = "broadcast"
                        /\ call[t].kb \notin DOMAIN connections )
              => /\ connections' = connections
                 /\ received' = received
                 /\ pc'[t] = "idle"
                 /\ lastDone'.outcome = "returned"
       /\ \A t \in HubTasks, kb \in Channels \ DOMAIN connections :
              Count(t, kb) => /\ counted'.n = 0
                              /\ connections' = connections]_vars

\* a broadcast on a channel without entry has returned while the other
\* channel has a subscriber, which received nothing
C13_Witness ==
    /\ lastDone.kb # None
    /\ lastDone.start = {}
    /\ lastDone.kb \notin DOMAIN connections
    /\ DOMAIN connections # {}
    /\ \A s \in Sinks : received[s] = <<>>

\* a count on a channel without entry has returned 0
C13_WitnessCount ==
    /\ counted.kb # None
    /\ counted.n = 0
    /\ counted.kb \notin DOMAIN connections
    /\ DOMAIN connections # {}

\* C14: after any sequence of subscribe, unsubscribe and broadcast calls no
\* sink is a member of two different channels.
C14_OneChannelPerSink ==
    \A k1, k2 \in DOMAIN connections :
        k1 # k2 => connections[k1] \cap connections[k2] = {}

\* C15: the hub's locking does not serialize operations on unrelated
\* channels: no call on one channel waits for the lock while a broadcast on a
\* different channel is delivering.
C15_UnrelatedChannelsNotSerialized ==
    \A t, u \in HubTasks :
        (pc[t] = "send" /\ pc[u] = "wait") => call[u].kb = call[t].kb

(***************************************************************************)
(* Performance tracker: properties                                         *)
(***************************************************************************)
\* the PerformanceMetrics object the scope that was just left had opened
LeftSpan == spans[Val(trackRet.span)]

\* C16: when the operation wrapped by scope(name) on an enabled tracker
\* raises, that span's error count is increased by exactly one, the span is
\* closed with a duration that is set and not negative, and the same
\* exception propagates to the caller.
C16_RaisingScopeRecorded ==
    (enabled /\ trackRet.op = "scope" /\ trackRet.outcome = "raised") =>
        /\ LeftSpan.errors = trackRet.errors_before + 1
        /\ LeftSpan.end_time # {}
        /\ LeftSpan.duration # {}
        /\ \A d \in LeftSpan.duration : d >= 0
        /\ trackRet.exc \in OperationErrors

\* C17: for every scope(name) entered on an enabled tracker, on every exit
\* path and under every interleaving of scopes (same name included, nested
\* or overlapping), the span this scope opened is closed, with end_time and
\* duration set, by the time the scope has exited.
C17_OwnSpanClosedOnExit ==
    (enabled /\ trackRet.op = "scope") =>
        /\ LeftSpan.end_time # {}
        /\ LeftSpan.duration # {}

\* the sum of one field over the entries of the log
RECURSIVE SumLog(_, _)
SumLog(log, field) ==
    IF log = {} THEN 0
    ELSE LET c == CHOOSE x \in log : TRUE
         IN c[field] + SumLog(log \ {c}, field)

\* C18: on an enabled tracker each of total_tokens, total_api_calls,
\* total_errors and total_duration equals the sum, over the spans closed since
\* the last reset, of that span's value when it was closed, each closed span
\* counted exactly once: no span is closed twice and none is left out.
C18_TotalsAreSums ==
    enabled =>
        /\ \A c \in closedLog : c.nth = 1
        /\ total_duration = SumLog(closedLog, "duration")
        /\ total_tokens = SumLog(closedLog, "total_tokens")
        /\ total_api_calls = SumLog(closedLog, "api_calls")
        /\ total_errors = SumLog(closedLog, "errors")

\* C19: end(name) called when the tracker has no open span for name (never
\* begun, or already closed by an earlier end) raises no error and leaves
\* every aggregate total and every span's end_time and duration unchanged.
C19_EndWithoutOpenSpan ==
    [][\A n \in Names :
          ( /\ End(n)
            /\ \/ n \notin DOMAIN metrics
               \/ spans[metrics[n]].end_time # {} )
          => /\ trackRet'.outcome = "returned"
             /\ spans' = spans
             /\ total_duration' = total_duration
             /\ total_tokens' = total_tokens
             /\ total_api_calls' = total_api_calls
             /\ total_errors' = total_errors]_vars

\* C20: on a tracker configured with enabled = false, any sequence of begin,
\* end, scope, summary and persist calls leaves the span index empty and the
\* four totals at zero, and persist writes no file and creates no directory.
C20_DisabledTouchesNothing ==
    ~enabled =>
        /\ DOMAIN metrics = {}
        /\ total_duration = 0
        /\ total_tokens = 0
        /\ total_api_calls = 0
        /\ total_errors = 0
        /\ files = {}
        /\ ~save_dir_exists
        /\ trackRet.op = "save" => (trackRet.outcome = "returned" /\ trackRet.path = {})

\* persist returns on a disabled tracker after a begin and a scope whose
\* operation raised, and after tokens were added to a handle
C20_Witness ==
    /\ ~enabled
    /\ trackRet.op = "save"
    /\ Len(spans) = 2
    /\ \E a \in DOMAIN spans : spans[a].total_tokens > 0
    /\ \A sc \in Scopes : scopePc[sc] = "out"

\* C21: for every span, after any sequence of token, api-call, error and
\* custom-metric updates and of begin and end calls, total_tokens equals
\* prompt_tokens + completion_tokens.
C21_TotalIsPromptPlusCompletion ==
    \A a \in DOMAIN spans :
        spans[a].total_tokens = spans[a].prompt_tokens + spans[a].completion_tokens

\* a closed span that had tokens added twice, with and without prompt tokens,
\* and one other update
C21_Witness ==
    \E a \in DOMAIN spans :
        /\ spans[a].end_time # {}
        /\ spans[a].prompt_tokens = 2
        /\ spans[a].completion_tokens = 2
        /\ spans[a].total_tokens = 4
        /\ updates = 3

\* the four totals
Totals == <<total_duration, total_tokens, total_api_calls, total_errors>>

\* the four totals of a result of AfterEnd
TotalsOf(r) == <<r.total_duration, r.total_tokens, r.total_api_calls, r.total_errors>>

\* C22: for every operation and outcome (return or raise), on an enabled or a
\* disabled tracker, calling the operation through the track_performance
\* wrapper changes the tracker's index and totals exactly as running it inside
\* scope(name) would, with name the target's agent_name or else the function's
\* name, and gives the caller the same result or the same exception.
C22_WrapperActsAsScope ==
    [][\A sc \in Scopes :
          /\ \A target \in Targets :
                 WrapCall(sc, target) =>
                     /\ scopeName'[sc] = (IF target.agent_name # None
                                          THEN target.agent_name ELSE target.func)
                     /\ metrics' = Register(enabled, metrics, scopeName'[sc],
                                            Len(spans) + 1)
                     /\ Totals' = Totals
          /\ WrapReturn(sc) =>
                 /\ metrics' = metrics
                 /\ Totals' = TotalsOf(AfterEnd(spans, scopeName[sc]))
                 /\ trackRet'.outcome = "returned"
          /\ \A e \in OperationErrors :
                 WrapRaise(sc, e) =>
                     /\ metrics' = metrics
                     /\ Totals' = TotalsOf(AfterEnd(
                            TrackExcept(spans, Val(scopeSpan[sc]), e), scopeName[sc]))
                     /\ trackRet'.outcome = "raised"
                     /\ trackRet'.exc = e]_vars

\* what is configured and recorded in the tracker instance
Recorded == <<enabled, save_dir, metrics, spans, closedLog, Totals>>

\* C30: get_monitor returns the same tracker instance on every call: the
\* enabled flag and storage location given on the first call stay in force,
\* and the values given on any later call change neither the instance's
\* configuration nor its recorded spans and totals.
C30_MonitorMadeOnce ==
    [][/\ \A en \in EnabledArgs, dir \in DirArgs :
          get_monitor(en, dir) =>
              IF global_monitor = {}
              THEN /\ global_monitor' # {}
                   /\ enabled' = en
                   /\ save_dir' = SaveDirOf(dir)
              ELSE /\ global_monitor' = global_monitor
                   /\ Recorded' = Recorded
       /\ \A config \in Configs :
              (init_monitor_from_config(config) /\ global_monitor # {}) =>
                  /\ global_monitor' = global_monitor
                  /\ Recorded' = Recorded]_vars

\* a second get_monitor was called with other values than the first while
\* the instance holds a folded span
C30_Witness ==
    /\ global_monitor = {1}
    /\ enabled
    /\ save_dir = "logs"
    /\ total_duration > 0
    /\ DOMAIN metrics # {}
    /\ trackRet = NoTrackRet

(***************************************************************************)
(* Citation registry shared by interleaved runs: properties                *)
(***************************************************************************)
\* C28: when two or more runs interleave on the process-wide registry
\* singleton, each run calling reset at its start and then allocate for its
\* own citations, the ids returned to any one run by its own allocate calls
\* are pairwise distinct.
C28_RunIdsDistinct ==
    \A t \in CiteTasks :
        \A h \in handed[t] :
            \A i, j \in 1 .. Len(h) : i # j => h[i] # h[j]

(***************************************************************************)
(* ensure_keys, applied to every small dict and key list                   *)
(***************************************************************************)
KeyNames == {<<"a">>, <<"b">>, <<"c">>}
SeqsUpTo(S, n) == UNION {[1..k -> S] : k \in 0..n}
One == JValue("int", <<"1">>, <<>>, <<>>)
DictOf(ns) == JValue("dict", <<>>, ns, [j \in 1..Len(ns) |-> One])
Datas ==
    {DictOf(ns) : ns \in {q \in SeqsUpTo(KeyNames, Cardinality(KeyNames)) :
                              \A i, j \in 1..Len(q) : i # j => q[i] # q[j]}}
InitKeys ==
    /\ CitationInit /\ HubInit /\ TrackerInit(TRUE)
    /\ text = <<>>
    /\ fallback = NoValue
    /\ repair_json = NotInstalled
    /\ recovered = NoRecovery
    /\ data \in Datas
    /\ keys \in SeqsUpTo(KeyNames, MaxKeys)
    /\ checked = NoCheck
EnsureKeys ==
    /\ checked' = ensure_keys(data, keys)
    /\ UNCHANGED <<text, fallback, repair_json, recovered, data, keys,
                   citeVars, hubVars, trackVars>>
KeysNext == EnsureKeys
SpecKeys == InitKeys /\ [][KeysNext]_vars

\* the required keys that the dict does not have
Absent == {keys[j] : j \in 1..Len(keys)} \ {data.names[j] : j \in 1..Len(data.names)}

\* C27: ensure_keys raises an error naming every required key absent from the
\* dict (all of them, not only the first) when at least one is absent,
\* otherwise returns the dict it was given; it never modifies the dict
C27_RequireKeysNamesAllMissing ==
    [][checked' # NoCheck =>
        /\ data' = data
        /\ IF Absent # {}
           THEN /\ checked'.outcome = "KeyError"
                /\ {checked'.named[j] : j \in 1..Len(checked'.named)} = Absent
           ELSE /\ checked'.outcome = "returned"
                /\ checked'.ref = "data"]_vars
\* require keys a, b, c on {a: 1} failed and named b and c
C27_Witness ==
    /\ data = DictOf(<< <<"a">> >>)
    /\ keys = << <<"a">>, <<"b">>, <<"c">> >>
    /\ checked.outcome = "KeyError"
    /\ checked.named = << <<"b">>, <<"c">> >>
\* every required key was present and the dict came back
C27_WitnessReturned ==
    /\ keys = << <<"b">>, <<"a">> >>
    /\ checked.outcome = "returned"
    /\ checked.ref = "data"

(***************************************************************************)
(* The recovery functions, applied to texts                                *)
(***************************************************************************)
Chars == {"{", "}", "[", "]", ":", ",", Quote, Backslash, "\n", " ",
          "0", "1", "a", "j", "s", "o", "n", Backtick}
ShortTexts == SeqsUpTo(Chars, MaxTextLen)

\* well-formed documents, written out: a string literal, an array, an object
Q(x) == <<Quote>> \o x \o <<Quote>>
Arr(x) == <<"[">> \o x \o <<"]">>
Obj(k, v) == <<"{">> \o Q(k) \o <<":">> \o v \o <<"}">>
StrBodies == {<<"a">>, Fence, Fence \o <<"1">> \o Fence,
              <<Backslash, Quote>>, <<Backslash, "n">>}
Scalars == {<<"1">>} \cup {Q(b) : b \in StrBodies}
Flat == {Arr(<<>>), <<"{", "}">>} \cup {Arr(x) : x \in Scalars}
            \cup {Obj(<<"a">>, x) : x \in Scalars}
Documents == Flat \cup {Arr(d) : d \in Flat} \cup {Obj(<<"a">>, d) : d \in Flat}
\* a document inside a fenced block tagged json, and inside prose
Fenced(d) == Fence \o Tag \o <<"\n">> \o d \o <<"\n">> \o Fence
InProse(d) == <<"a", " ">> \o d \o <<" ", "a">>

\* the record of the test: tool_calls (a) holds one object whose type (s) is
\* the string j and whose query (o) is written as lit
Snippet == <<"\n", "a", Quote, "a", Quote, "\n">>
ToolCalls(lit) ==
    <<"\n", " ", "{">> \o Q(<<"a">>) \o <<":", " ", "[", "{">>
        \o Q(<<"s">>) \o <<":">> \o Q(<<"j">>) \o <<",", " ">>
        \o Q(<<"o">>) \o <<":", " ">> \o lit \o <<"}", "]", "}", "\n">>
\* the query between triple quotes, as the test writes it
TripleQuoted == ToolCalls(<<Quote, Quote, Quote>> \o Snippet \o <<Quote, Quote, Quote>>)
\* the query as a JSON string literal with its newlines and quotes escaped
Escaped ==
    ToolCalls(Q(<<Backslash, "n", "a", Backslash, Quote, "a", Backslash, Quote,
                  Backslash, "n">>))

RECURSIVE Nest(_, _)
\* x inside n pairs of brackets
Nest(x, n) == IF n = 0 THEN x ELSE Arr(Nest(x, n - 1))
\* arrays nested to the scanner's limit, and one deeper
DeepTexts == {Nest(<<"1">>, RecursionLimit), Nest(<<"1">>, RecursionLimit + 1)}

Texts ==
    ShortTexts \cup Scalars \cup Documents \cup {Fenced(d) : d \in Documents}
        \cup {InProse(d) : d \in Documents} \cup {TripleQuoted, Escaped}
        \cup DeepTexts \cup {Fenced(d) : d \in DeepTexts}
Fallbacks == {NoValue, EmptyArray}
\* json_repair absent, raising, or returning the empty text, {} or ""
RepairOutcomes ==
    {NotInstalled, Library(TRUE, <<>>), Library(FALSE, <<>>),
     Library(FALSE, <<"{", "}">>), Library(FALSE, <<Quote, Quote>>)}

InitJson ==
    /\ CitationInit /\ HubInit /\ TrackerInit(TRUE)
    /\ text \in Texts
    /\ fallback \in Fallbacks
    /\ repair_json \in RepairOutcomes
    /\ recovered = NoRecovery
    /\ data = EmptyObject
    /\ keys = <<>>
    /\ checked = NoCheck
ExtractJson ==
    /\ recovered' = Recovery("extract_json_from_text", extract_json_from_text(text))
    /\ UNCHANGED <<text, fallback, repair_json, data, keys, checked,
                   citeVars, hubVars, trackVars>>
ParseResponse ==
    /\ recovered' = Recovery("parse_json_response", parse_json_response(text, fallback))
    /\ UNCHANGED <<text, fallback, repair_json, data, keys, checked,
                   citeVars, hubVars, trackVars>>
JsonNext == ExtractJson \/ ParseResponse
SpecJson == InitJson /\ [][JsonNext]_vars

\* the tiers the claims name, each on the input text, in the claimed order
FenceTier(t) ==
    IF code_block(t).found THEN loads(strip(code_block(t).group)) ELSE Failed
DirectTier(t) == loads(t)
ObjectTier(t) == IF obj_match(t).found THEN loads(obj_match(t).group) ELSE Failed
ArrayTier(t) == IF arr_match(t).found THEN loads(arr_match(t).group) ELSE Failed
RepairTier ==
    IF repair_json.installed /\ ~repair_json.raises
    THEN loads(repair_json.chars) ELSE Failed
Tiers(t) == <<FenceTier(t), DirectTier(t), ObjectTier(t), ArrayTier(t), RepairTier>>
FirstParsed(t) == Least({j \in 1..Len(Tiers(t)) : Tiers(t)[j].ok})
\* the call ended on the path taken when nothing parsed
NothingParsed == recovered.tier \in {"fallback", None}
Get(d, k) == d.items[CHOOSE j \in 1..Len(d.names) : d.names[j] = k]

\* C23: recovery tries the code fence, the direct parse, the object span, the
\* array span and the repair, in that order, and returns the value of the
\* first of them that parses; a later tier's value or the fallback is
\* returned only when every earlier tier failed
C23_FirstParsingTierWins ==
    recovered.outcome = "returned" =>
        IF \E j \in 1..Len(Tiers(text)) : Tiers(text)[j].ok
        THEN /\ ~NothingParsed
             /\ recovered.value = Tiers(text)[FirstParsed(text)].val
        ELSE NothingParsed

\* C24: recovery raises no error for any text, with or without the repair
\* library; when every tier fails it returns the caller's fallback, and an
\* empty mapping when no fallback was given
C24_FallbackNeverRaises ==
    recovered.fn # None =>
        /\ recovered.outcome = "returned"
        /\ NothingParsed =>
               recovered.value =
                   IF recovered.fn = "parse_json_response" /\ fallback # NoValue
                   THEN fallback ELSE EmptyObject

\* C25: recovering a well-formed document wrapped in a fenced block yields
\* the document's value, and so does recovering the document unwrapped
C25_RoundTrip ==
    \A d \in Documents :
        (recovered.fn # None /\ text \in {d, Fenced(d)})
            => recovered.value = loads(d).val

\* C26: recovering the record whose query field holds multi-line text with
\* quote characters, triple-quoted as in the test or escaped, yields a
\* mapping that has tool_calls and whose query is that text, intact
C26_QuoteHeavyFieldIntact ==
    (recovered.fn = "extract_json_from_text" /\ text \in {TripleQuoted, Escaped})
        => /\ recovered.value.kind = "dict"
           /\ Has(recovered.value, <<"a">>)
           /\ Get(Get(recovered.value, <<"a">>).items[1], <<"s">>).chars = <<"j">>
           /\ Get(Get(recovered.value, <<"a">>).items[1], <<"o">>).chars = Snippet

\* C29: a value recovery returns that did not come from the fallback is a
\* mapping or a sequence, never a bare number, string, boolean or null
C29_RecoveredIsStructured ==
    (recovered.outcome = "returned" /\ ~NothingParsed)
        => recovered.value.kind \in {"dict", "list"}

====
